---- MODULE Spec2Model ----
(***************************************************************************)
(* Model of the CSV front end of data-science-app: the csvDataStore /      *)
(* fileStore / uiStateStore stores, the loader processSingleFile, the      *)
(* DataTable component (filter, sort, paginate, debounce) and the advanced *)
(* filters of the chart component.                                         *)
(*                                                                         *)
(* JavaScript values are modelled by tagged records (typeof is the tag t). *)
(* Strings are sequences of one-character strings.  Arrays are sequences;  *)
(* no code path of the modelled handlers mutates an array in place (sort   *)
(* is always applied to a copy), so arrays are values.                     *)
(***************************************************************************)
EXTENDS Integers, Sequences, FiniteSets, TLC

----------------------------------------------------------------------------
(* Bounds *)

MaxLoads == 2        \* number of processSingleFile runs
MaxTime == 0         \* Date.now() ranges over 0..MaxTime
MaxRand == 2         \* Math.random() suffix ranges over 0..MaxRand-1
MaxUnloads == 1      \* number of removeFile calls made by a store client
MaxUiEvents == 2     \* number of handler calls made by the user

----------------------------------------------------------------------------
(* JavaScript values *)

Str(s) == [t |-> "string", s |-> s, n |-> 0]
Num(k) == [t |-> "number", s |-> << >>, n |-> k]
NullV == [t |-> "null", s |-> << >>, n |-> 0]
UndefV == [t |-> "undefined", s |-> << >>, n |-> 0]

\* v == null  (true of null and undefined)
IsNullish(v) == v.t \in {"null", "undefined"}

\* truthiness of a value (the `v || ""` idiom)
Truthy(v) ==
  CASE v.t = "string" -> v.s # << >>
    [] v.t = "number" -> v.n # 0
    [] OTHER -> FALSE

Digit(k) == <<"0", "1", "2", "3", "4", "5", "6", "7", "8", "9">>[k + 1]

RECURSIVE NatToString(_)
NatToString(k) ==
  IF k < 10 THEN <<Digit(k)>> ELSE NatToString(k \div 10) \o <<Digit(k % 10)>>

\* String(v)
ToStr(v) ==
  CASE v.t = "string" -> v.s
    [] v.t = "number" -> NatToString(v.n)
    [] v.t = "null" -> <<"n", "u", "l", "l">>
    [] OTHER -> <<"u", "n", "d", "e", "f", "i", "n", "e", "d">>

LowerChar(c) == IF c = "N" THEN "n" ELSE IF c = "B" THEN "b" ELSE c

\* String.prototype.toLowerCase
ToLowerCase(s) == [i \in 1..Len(s) |-> LowerChar(s[i])]

\* String.prototype.includes
Includes(s, sub) ==
  \E k \in 0..(Len(s) - Len(sub)) : SubSeq(s, k + 1, k + Len(sub)) = sub

\* String.prototype.trim (the only white space of the alphabet is " ")
RECURSIVE TrimLeft(_)
TrimLeft(s) == IF s # << >> /\ Head(s) = " " THEN TrimLeft(Tail(s)) ELSE s

RECURSIVE TrimRight(_)
TrimRight(s) ==
  IF s # << >> /\ s[Len(s)] = " " THEN TrimRight(SubSeq(s, 1, Len(s) - 1))
  ELSE s

Trim(s) == TrimRight(TrimLeft(s))

IsDigit(c) == c \in {"0", "1", "2", "3", "4", "5", "6", "7", "8", "9"}

DigitVal(c) == CHOOSE k \in 0..9 : Digit(k) = c

\* parseFloat on the alphabet of the model: the value of the longest prefix
\* of digits, NaN (-1) when the string does not start with a digit
NaN == -1

RECURSIVE ParseDigits(_, _)
ParseDigits(s, acc) ==
  IF s # << >> /\ IsDigit(Head(s))
  THEN ParseDigits(Tail(s), 10 * acc + DigitVal(Head(s)))
  ELSE acc

ParseFloat(v) ==
  LET s == TrimLeft(ToStr(v))
  IN IF s # << >> /\ IsDigit(Head(s)) THEN ParseDigits(s, 0) ELSE NaN

\* Collation of String.prototype.localeCompare on the alphabet of the model:
\* digits before letters, letters in alphabetical order, and at equal letters
\* lower case before upper case
Primary(c) ==
  CASE c = " " -> 0
    [] IsDigit(c) -> 1 + DigitVal(c)
    [] c \in {"b", "B"} -> 11
    [] c = "l" -> 12
    [] c \in {"n", "N"} -> 13
    [] c = "u" -> 14
    [] OTHER -> 15

Tertiary(c) == IF c \in {"N", "B"} THEN 1 ELSE 0

RECURSIVE LexCompare(_, _)
LexCompare(a, b) ==
  IF a = << >> /\ b = << >> THEN 0
  ELSE IF a = << >> THEN -1
  ELSE IF b = << >> THEN 1
  ELSE IF Head(a) < Head(b) THEN -1
  ELSE IF Head(a) > Head(b) THEN 1
  ELSE LexCompare(Tail(a), Tail(b))

LocaleCompare(a, b) ==
  LET p == LexCompare([i \in 1..Len(a) |-> Primary(a[i])],
                      [i \in 1..Len(b) |-> Primary(b[i])])
  IN IF p # 0 THEN p
     ELSE LexCompare([i \in 1..Len(a) |-> Tertiary(a[i])],
                     [i \in 1..Len(b) |-> Tertiary(b[i])])

----------------------------------------------------------------------------
(* Rows, and the loader of processSingleFile *)

\* row[key]; a missing key reads as undefined
Get(row, key) == IF key \in DOMAIN row THEN row[key] ELSE UndefV

\* String.prototype.split(sep) for a one-character separator
RECURSIVE SplitFrom(_, _, _)
SplitFrom(s, sep, cur) ==
  IF s = << >> THEN <<cur>>
  ELSE IF Head(s) = sep THEN <<cur>> \o SplitFrom(Tail(s), sep, << >>)
  ELSE SplitFrom(Tail(s), sep, Append(cur, Head(s)))

Split(s, sep) == SplitFrom(s, sep, << >>)

\* columns = columnAnalysis.map(col => ({id: col.name, type: col.data_type}))
ColumnsOf(columnAnalysis) ==
  [i \in 1..Len(columnAnalysis) |->
     [id |-> columnAnalysis[i].name, type |-> columnAnalysis[i].data_type]]

ColumnIds(cols) == {cols[i].id : i \in 1..Len(cols)}

\* contentLines = content.split("\n").filter(line => line.trim())
ContentLines(content) ==
  LET NonBlank(line) == Trim(line) # << >>
  IN SelectSeq(Split(content, "\n"), NonBlank)

\* ParseRow giving a field to each value of the line instead of each column
ParseRow_perValue(line, index, cols) ==
  LET values == Split(line, ",")
      present == {cols[k].id : k \in {j \in 1..Len(cols) : j <= Len(values)}}
      Last(c) == CHOOSE k \in 1..Len(cols) :
                   /\ cols[k].id = c
                   /\ \A j \in (k + 1)..Len(cols) : cols[j].id # c
  IN [key \in {"id"} \cup present |->
        IF key \in present THEN Str(Trim(values[Last(key)]))
        ELSE Num(index)]

\* obj = { id: index }; columns.forEach((col, colIndex) => obj[col.id] = ..)
ParseRow(line, index, cols) ==
  LET values == Split(line, ",")
      Last(c) == CHOOSE k \in 1..Len(cols) :
                   /\ cols[k].id = c
                   /\ \A j \in (k + 1)..Len(cols) : cols[j].id # c
  IN [key \in {"id"} \cup ColumnIds(cols) |->
        IF key \in ColumnIds(cols)
        THEN IF Last(key) - 1 < Len(values)
             THEN Str(Trim(values[Last(key)]))
             ELSE NullV
        ELSE Num(index)]

\* parsedData = contentLines.slice(1).map((row, index) => ..)
ParseData(content, cols) ==
  LET lines == ContentLines(content)
      dataRows == IF lines = << >> THEN << >> ELSE Tail(lines)
  IN [i \in 1..Len(dataRows) |-> ParseRow(dataRows[i], i - 1, cols)]

\* qualityReport.valid_rows = content.split("\n").length - 1
ValidRows(content) == Len(Split(content, "\n")) - 1

----------------------------------------------------------------------------
(* The files offered to the loader, with the answers of the backend
   commands read_csv_file (content), validate_csv_file (validation) and
   analyze_csv_columns (columnAnalysis) *)

Line(fields) == fields \o <<"\n">>

FileA ==
  [name |-> "a.csv", path |-> "/d/a.csv",
   content |-> Line(<<"x", ",", "k">>) \o Line(<<"n", ",", "1", "0">>)
               \o Line(<<"N", ",", "9">>) \o Line(<<"b">>)
               \o <<"b", ",", " ", "9">>,
   validation |-> [estimated_rows |-> 4, column_count |-> 2],
   columnAnalysis |-> <<[name |-> "x", data_type |-> "string"],
                        [name |-> "k", data_type |-> "number"]>>]

RECURSIVE Repeat(_, _)
Repeat(s, k) == IF k = 0 THEN << >> ELSE s \o Repeat(s, k - 1)

FileB ==
  [name |-> "b.csv", path |-> "/d/b.csv",
   content |-> Line(<<"k">>) \o Repeat(Line(<<"1">>), 5) \o Line(<<"9">>)
               \o Repeat(Line(<<"1">>), 5),
   validation |-> [estimated_rows |-> 11, column_count |-> 1],
   columnAnalysis |-> <<[name |-> "k", data_type |-> "number"]>>]

InputFiles == {FileA, FileB}

----------------------------------------------------------------------------
(* DataTable: filterDataSimple, sortData, paginateData, tableInfo *)

\* The component's parsedData is an array or undefined
Defined(rows) == [def |-> TRUE, rows |-> rows]
Undefined == [def |-> FALSE, rows |-> << >>]

\* Object.values(row).some(value => String(value).toLowerCase().includes(g))
GlobalMatch(row, globalFilterLower) ==
  \E key \in DOMAIN row :
    Includes(ToLowerCase(ToStr(row[key])), globalFilterLower)

\* CellValue without the toLowerCase() of the cell
CellValue_caseSensitive(row, columnId) ==
  LET v == Get(row, columnId)
  IN IF Truthy(v) THEN ToStr(v) ELSE << >>

\* cellValue = String(row[columnId] || "").toLowerCase()
CellValue(row, columnId) ==
  LET v == Get(row, columnId)
  IN ToLowerCase(IF Truthy(v) THEN ToStr(v) ELSE << >>)

\* the loop over columnFilterEntries: every entry must match
ColumnMatch(row, columnFilters, entries) ==
  \A columnId \in entries :
    Includes(CellValue(row, columnId), ToLowerCase(columnFilters[columnId]))

\* filterDataSimple collecting the kept rows with unshift instead of push
filterDataSimple_unshift(data, globalFilter, columnFilters) ==
  IF ~data.def \/ data.rows = << >> THEN << >>
  ELSE LET globalFilterLower == ToLowerCase(Trim(globalFilter))
           hasGlobalFilter == Len(globalFilterLower) > 0
           columnFilterEntries ==
             {c \in DOMAIN columnFilters : Trim(columnFilters[c]) # << >>}
           Keep(row) ==
             /\ hasGlobalFilter => GlobalMatch(row, globalFilterLower)
             /\ ColumnMatch(row, columnFilters, columnFilterEntries)
           kept == SelectSeq(data.rows, Keep)
       IN IF ~hasGlobalFilter /\ columnFilterEntries = {}
          THEN data.rows
          ELSE [i \in 1..Len(kept) |-> kept[Len(kept) + 1 - i]]

filterDataSimple(data, globalFilter, columnFilters) ==
  IF ~data.def \/ data.rows = << >> THEN << >>
  ELSE LET globalFilterLower == ToLowerCase(Trim(globalFilter))
           hasGlobalFilter == Len(globalFilterLower) > 0
           columnFilterEntries ==
             {c \in DOMAIN columnFilters : Trim(columnFilters[c]) # << >>}
           Keep(row) ==
             /\ hasGlobalFilter => GlobalMatch(row, globalFilterLower)
             /\ ColumnMatch(row, columnFilters, columnFilterEntries)
       IN IF ~hasGlobalFilter /\ columnFilterEntries = {}
          THEN data.rows
          ELSE SelectSeq(data.rows, Keep)

\* the comparator handed to Array.prototype.sort
SortCompare(a, b, column, direction) ==
  LET aVal == Get(a, column)
      bVal == Get(b, column)
      comparison ==
        IF aVal.t = "number" /\ bVal.t = "number"
        THEN aVal.n - bVal.n
        ELSE LocaleCompare(ToStr(aVal), ToStr(bVal))
  IN IF IsNullish(aVal) /\ IsNullish(bVal) THEN 0
     ELSE IF IsNullish(aVal) THEN (IF direction = "asc" THEN -1 ELSE 1)
     ELSE IF IsNullish(bVal) THEN (IF direction = "asc" THEN 1 ELSE -1)
     ELSE IF direction = "asc" THEN comparison ELSE 0 - comparison

\* Array.prototype.sort is stable: an element goes behind every element that
\* does not compare greater than it
InsertSorted(sorted, x, column, direction) ==
  LET greater == {i \in 1..Len(sorted) :
                    SortCompare(sorted[i], x, column, direction) > 0}
      at == IF greater = {} THEN Len(sorted) + 1
            ELSE CHOOSE i \in greater : \A j \in greater : i <= j
  IN SubSeq(sorted, 1, at - 1) \o <<x>> \o SubSeq(sorted, at, Len(sorted))

RECURSIVE StableSort(_, _, _, _)
StableSort(data, k, column, direction) ==
  IF k = 0 THEN << >>
  ELSE InsertSorted(StableSort(data, k - 1, column, direction), data[k],
                    column, direction)

sortData(data, column, direction) ==
  IF column = "" THEN data
  ELSE StableSort(data, Len(data), column, direction)

Min2(a, b) == IF a < b THEN a ELSE b
Max2(a, b) == IF a > b THEN a ELSE b

\* data.slice(startIndex, endIndex)
paginateData(data, page, size) ==
  LET startIndex == (page - 1) * size
      endIndex == startIndex + size
  IN SubSeq(data, startIndex + 1, Min2(endIndex, Len(data)))

\* Math.ceil(a / b) for a >= 0, b > 0
CeilDiv(a, b) == (a + b - 1) \div b

\* tableInfoOf with the page count rounded down
tableInfoOf_floor(parsed, filtered, page, size) ==
  [totalRows |-> Len(parsed.rows),
   filteredRows |-> Len(filtered),
   currentPage |-> page,
   totalPages |-> Len(filtered) \div size,
   startRow |-> (page - 1) * size + 1,
   endRow |-> Min2(page * size, Len(filtered))]

tableInfoOf(parsed, filtered, page, size) ==
  [totalRows |-> Len(parsed.rows),
   filteredRows |-> Len(filtered),
   currentPage |-> page,
   totalPages |-> CeilDiv(Len(filtered), size),
   startRow |-> (page - 1) * size + 1,
   endRow |-> Min2(page * size, Len(filtered))]

\* the page numbers offered by the pagination buttons of the template
PageButtons(page, totalPages) ==
  (IF page > 1 THEN {1, page - 1} ELSE {})
    \cup {p \in {Max2(1, page - 2) + i : i \in 0..(Min2(5, totalPages) - 1)} :
            p <= totalPages}
    \cup (IF page < totalPages THEN {page + 1, totalPages} ELSE {})

\* the options of the page size select
PageSizeOptions == {10, 25, 50, 100}

\* the texts typed into the filter inputs
FilterTexts == {<<"n">>}

----------------------------------------------------------------------------
(* Chart component: the advanced filters *)

IsNaN(x) == x = NaN

\* absent bound of the range filter (rangeFilterMin / rangeFilterMax = null)
NoBound == -2

RangeBounds == {NoBound, 9}

RangeKeep(row, column, min, max) ==
  LET value == ParseFloat(Get(row, column))
  IN /\ ~IsNaN(value)
     /\ min = NoBound \/ value >= min
     /\ max = NoBound \/ value <= max

\* value !== null && value !== undefined && value !== ""
Filled(row, columnId) ==
  LET v == Get(row, columnId)
  IN ~IsNullish(v) /\ v # Str(<< >>)

\* sort((a, b) => a - b) of numbers
RECURSIVE SortNumbers(_)
SortNumbers(values) ==
  IF values = << >> THEN << >>
  ELSE LET x == values[Len(values)]
           rest == SortNumbers(SubSeq(values, 1, Len(values) - 1))
           Leq(y) == y <= x
           Gt(y) == y > x
       IN SelectSeq(rest, Leq) \o <<x>> \o SelectSeq(rest, Gt)

\* 4 * d3.quantile(values, p4 / 4) of a sorted array of integers
Quantile4(values, p4) ==
  LET n == Len(values)
      i4 == (n - 1) * p4
      i0 == i4 \div 4
      r == i4 % 4
  IN IF n < 2 THEN 4 * values[1]
     ELSE 4 * values[i0 + 1] + (values[i0 + 2] - values[i0 + 1]) * r

\* the rows applyPresetFilter("outliers") keeps
OutlierFilter(originalData, selectedYColumn) ==
  LET parsed == [i \in 1..Len(originalData) |->
                   ParseFloat(Get(originalData[i], selectedYColumn))]
      NotNaN(x) == ~IsNaN(x)
      values == SortNumbers(SelectSeq(parsed, NotNaN))
      q1 == Quantile4(values, 1)
      q3 == Quantile4(values, 3)
      iqr == q3 - q1
      lowerBound8 == 2 * q1 - 3 * iqr
      upperBound8 == 2 * q3 + 3 * iqr
      Keep(row) ==
        LET value == ParseFloat(Get(row, selectedYColumn))
        IN ~IsNaN(value) /\ 8 * value >= lowerBound8 /\ 8 * value <= upperBound8
  IN IF Len(values) > 4 THEN SelectSeq(originalData, Keep) ELSE originalData

PresetTypes == {"complete", "incomplete", "outliers"}

PresetFilter(type, originalData, availableColumns, selectedYColumn) ==
  LET Complete(row) == \A c \in ColumnIds(availableColumns) : Filled(row, c)
      Incomplete(row) == \E c \in ColumnIds(availableColumns) : ~Filled(row, c)
      numeric == {availableColumns[i].id : i \in
                    {j \in 1..Len(availableColumns) :
                       availableColumns[j].type = "number"}}
  IN CASE type = "complete" -> SelectSeq(originalData, Complete)
       [] type = "incomplete" -> SelectSeq(originalData, Incomplete)
       [] type = "outliers" /\ selectedYColumn \in numeric ->
            OutlierFilter(originalData, selectedYColumn)
       [] OTHER -> originalData

----------------------------------------------------------------------------
(* State *)

VARIABLES
  files,            \* csvDataStore.files: sequence of [id, name, path]
  currentFileId,    \* csvDataStore.currentFileId (NoId for null)
  parsedData,       \* csvDataStore.parsedData: fileId -> rows
  filteredData,     \* csvDataStore.filteredData: fileId -> rows
  columns,          \* csvDataStore.columns: fileId -> column definitions
  fileStats,        \* csvDataStore.fileStats: fileId -> statistics
  uploadedFiles,    \* fileStore.uploadedFiles: set of file ids
  processingStatus, \* fileStore.processingStatus: fileId -> status
  uiState,          \* uiStateStore: isLoading, pageSize
  procs,            \* running processSingleFile calls, by file name
  loads,            \* number of processSingleFile calls started
  unloads,          \* number of removeFile calls made by a store client
  uiEvents,         \* number of handler calls made by the user
  globalFilter,     \* DataTable state
  columnFilters,
  sortColumn,
  sortDirection,
  currentPage,
  pageSize,
  tableFilteredData,   \* DataTable's filteredData
  lastFilteredData,
  filterDebounceTimer, \* TRUE while the debounce timer is pending
  tableCrashed,        \* the component's update threw (parsedData.length)
  issued,           \* history: the ids returned by addFile, in order
  unloaded,         \* history: the issued ids handed to removeFile
  processingQueue,  \* fileStore.processingQueue: sequence of file ids
  queueHist,        \* history: the waiting ids, and the last answer
  cache,            \* ConfigAPI.cache: entries in the Map's insertion order
  cfgNow,           \* Date.now() as the ConfigAPI reads it
  cfgDb,            \* the backend's tables: table -> number of writes
  cfgCalls,         \* the ConfigAPI calls awaiting the backend's answer
  cfgHist,          \* history: uses of the cache keys, writes, last read
  exportRows,       \* the rows handed to handleDataExport
  exportText,       \* the text export_to_csv wrote
  reimported,       \* the rows parseCSVContent reads from that text
  exporting,        \* number of handleSimpleExport runs at an await
  monitor,          \* monitorStore: streaming, playing, index, frames
  unlisten,         \* MonitorEventHandler.unlisten (NoListener for null)
  listeners,        \* the listeners registered for "ai-stream"
  connecting,       \* number of connect() calls awaiting listen()
  monHist,          \* history: listeners made, last event, last disconnect
  metrics,          \* the metrics of each config service
  inflight          \* the calls of each config service at their await

storeVars == <<files, currentFileId, parsedData, filteredData, columns,
               fileStats>>
fileVars == <<uploadedFiles, processingStatus>>
loaderVars == <<procs, loads>>
queryVars == <<sortColumn, sortDirection, currentPage, pageSize>>
filterVars == <<globalFilter, columnFilters>>
viewVars == <<tableFilteredData, lastFilteredData, filterDebounceTimer,
              tableCrashed>>
histVars == <<issued, unloaded>>
tableVars == <<uiState, loaderVars, unloads, uiEvents, queryVars, filterVars,
               viewVars, histVars>>
serviceVars == <<monitor, unlisten, listeners, connecting, monHist, metrics,
                 inflight>>
extVars == <<processingQueue, queueHist, cache, cfgNow, cfgDb, cfgCalls,
             cfgHist, exportRows, exportText, reimported, exporting,
             serviceVars>>
vars == <<storeVars, fileVars, tableVars, extVars>>

NoId == <<-1, -1>>

\* rowCount / columnCount of a file before updateFile sets them (undefined)
NoCount == -1

\* Date.now().toString() + "_" + Math.random().toString(36).substr(2, 9)
NewId(time, random) == <<time, random>>

\* the ids one call can produce: Date.now() is the wall clock and two calls
\* may read the same millisecond; Math.random() may return a value again
Ids == {NewId(time, random) : time \in 0..MaxTime, random \in 0..(MaxRand - 1)}

MapSet(m, k, v) == [x \in DOMAIN m \cup {k} |-> IF x = k THEN v ELSE m[x]]
MapDelete(m, k) == [x \in DOMAIN m \ {k} |-> m[x]]
EmptyMap == [x \in {} |-> 0]

FileIds(fs) == {fs[i].id : i \in 1..Len(fs)}

\* $: parsedData = currentFileId
\*      ? $csvDataStore.parsedData.get(currentFileId) : []
LocalParsedData(cur, pd) ==
  IF cur = NoId THEN Defined(<< >>)
  ELSE IF cur \in DOMAIN pd THEN Defined(pd[cur])
  ELSE Undefined

\* $: columns = currentFileId ? $csvDataStore.columns.get(currentFileId) : []
LocalColumns(cur, cols) ==
  IF cur # NoId /\ cur \in DOMAIN cols THEN cols[cur] ELSE << >>

FiltersActive(gf, cf) == gf # << >> \/ DOMAIN cf # {}

\* TableReact without the setTimeout of the debounced block
TableReact_noTimeout(cur, pd, fd, gf, cf) ==
  LET parsed == LocalParsedData(cur, pd)
      assigned == parsed.def /\ ~FiltersActive(gf, cf)
      tfd == IF assigned THEN parsed.rows ELSE tableFilteredData
  IN IF tableCrashed
     THEN [tfd |-> tableFilteredData, lfd |-> lastFilteredData,
           timer |-> filterDebounceTimer, crashed |-> TRUE, fd |-> fd]
     ELSE [tfd |-> tfd,
           lfd |-> IF assigned THEN parsed.rows ELSE lastFilteredData,
           timer |-> filterDebounceTimer,
           crashed |-> ~parsed.def,
           fd |-> IF cur # NoId /\ (cur # currentFileId \/ assigned)
                  THEN MapSet(fd, cur, tfd) ELSE fd]

(* The reactive statements of DataTable, run after a csvDataStore update or a
   change of the filters.  cur, pd, fd: the store after the handler; gf, cf: the
   filters after the handler.  The result gives the component's filteredData,
   lastFilteredData, timer and crash flag, and the store's filteredData after
   the statement that calls setFilteredData. *)
TableReact(cur, pd, fd, gf, cf) ==
  LET parsed == LocalParsedData(cur, pd)
      assigned == parsed.def /\ ~FiltersActive(gf, cf)
      tfd == IF assigned THEN parsed.rows ELSE tableFilteredData
  IN IF tableCrashed
     THEN [tfd |-> tableFilteredData, lfd |-> lastFilteredData,
           timer |-> filterDebounceTimer, crashed |-> TRUE, fd |-> fd]
     ELSE [tfd |-> tfd,
           lfd |-> IF assigned THEN parsed.rows ELSE lastFilteredData,
           timer |-> IF parsed.def /\ FiltersActive(gf, cf) THEN TRUE
                     ELSE filterDebounceTimer,
           crashed |-> ~parsed.def,
           fd |-> IF cur # NoId /\ (cur # currentFileId \/ assigned)
                  THEN MapSet(fd, cur, tfd) ELSE fd]

\* the primed view of the table and the store's filteredData after a reaction
ApplyReact(r) ==
  /\ tableFilteredData' = r.tfd
  /\ lastFilteredData' = r.lfd
  /\ filterDebounceTimer' = r.timer
  /\ tableCrashed' = r.crashed
  /\ filteredData' = r.fd

\* the ConfigAPI's tables
Tables == {"users", "roles"}

\* the config services with metrics
Services == {"ORG", "Event"}

\* the metrics of a service at start and after resetMetrics
NoRequests ==
  [totalRequests |-> 0, successfulRequests |-> 0, failedRequests |-> 0]

\* MonitorEventHandler.unlisten when null
NoListener == 0

\* monitorStore's INITIAL_STATE
INITIAL_STATE ==
  [isStreaming |-> FALSE, isPlaying |-> FALSE, currentFrameIndex |-> 0,
   frameData |-> << >>]

\* the state after construction, but for the rows to export
InitStores ==
  /\ files = << >>
  /\ currentFileId = NoId
  /\ parsedData = EmptyMap
  /\ filteredData = EmptyMap
  /\ columns = EmptyMap
  /\ fileStats = EmptyMap
  /\ uploadedFiles = {}
  /\ processingStatus = EmptyMap
  /\ uiState = [isLoading |-> FALSE, pageSize |-> 50]
  /\ procs = EmptyMap
  /\ loads = 0
  /\ unloads = 0
  /\ uiEvents = 0
  /\ globalFilter = << >>
  /\ columnFilters = EmptyMap
  /\ sortColumn = ""
  /\ sortDirection = "asc"
  /\ currentPage = 1
  /\ pageSize = 50
  /\ tableFilteredData = << >>
  /\ lastFilteredData = << >>
  /\ filterDebounceTimer = FALSE
  /\ tableCrashed = FALSE
  /\ issued = << >>
  /\ unloaded = {}
  /\ processingQueue = << >>
  /\ queueHist = [waiting |-> EmptyMap, adds |-> 0, next |-> NoId,
                  expected |-> NoId]
  /\ cache = << >>
  /\ cfgNow = 0
  /\ cfgDb = [t \in Tables |-> 0]
  /\ cfgCalls = {}
  /\ cfgHist = [lastUse |-> EmptyMap, uses |-> 0, calls |-> 0,
                evicted |-> << >>,
                written |-> [t \in Tables |-> 0],
                read |-> [version |-> 0, written |-> 0]]
  /\ exportText = << >>
  /\ reimported = << >>
  /\ exporting = 0
  /\ monitor = INITIAL_STATE
  /\ unlisten = NoListener
  /\ listeners = {}
  /\ connecting = 0
  /\ monHist = [made |-> 0, connects |-> 0, added |-> 0, left |-> 0]
  /\ metrics = [s \in Services |-> NoRequests]
  /\ inflight = [s \in Services |-> [pending |-> 0, calls |-> 0]]

Init == InitStores /\ exportRows = << >>

----------------------------------------------------------------------------
(* csvDataStore actions *)

\* csvDataActions.addFile: the files after the push
addFile(fileId, fileData) ==
  Append(files, [id |-> fileId, name |-> fileData.name, path |-> fileData.path,
                 rowCount |-> NoCount, columnCount |-> NoCount])

\* csvDataActions.updateFile: findIndex takes the first file of that id
updateFile(fs, fileId, rowCount, columnCount) ==
  LET hits == {i \in 1..Len(fs) : fs[i].id = fileId}
      fileIndex == CHOOSE i \in hits : \A j \in hits : i <= j
  IN IF hits = {} THEN fs
     ELSE [fs EXCEPT ![fileIndex].rowCount = rowCount,
                     ![fileIndex].columnCount = columnCount]

\* csvDataActions.setParsedData, on the maps pd / fd / cols
setParsedData(pd, fd, cols, fileId, data, columnDefs) ==
  [parsedData |-> MapSet(pd, fileId, data),
   filteredData |-> MapSet(fd, fileId, data),
   columns |-> MapSet(cols, fileId, columnDefs)]

\* csvDataActions.setFilteredData, on the map fd
setFilteredData(fd, fileId, rows) == MapSet(fd, fileId, rows)

\* csvDataActions.setFileStats
setFileStats(stats, fileId, value) == MapSet(stats, fileId, value)

\* removeFile leaving currentFileId as it is
removeFile_keepCurrent(fs, fileId) ==
  LET NotIt(f) == f.id # fileId
  IN [files |-> SelectSeq(fs, NotIt),
      parsedData |-> MapDelete(parsedData, fileId),
      filteredData |-> MapDelete(filteredData, fileId),
      columns |-> MapDelete(columns, fileId),
      fileStats |-> MapDelete(fileStats, fileId),
      currentFileId |-> currentFileId]

\* csvDataActions.removeFile: the store after the update
removeFile(fs, fileId) ==
  LET NotIt(f) == f.id # fileId
      rest == SelectSeq(fs, NotIt)
  IN [files |-> rest,
      parsedData |-> MapDelete(parsedData, fileId),
      filteredData |-> MapDelete(filteredData, fileId),
      columns |-> MapDelete(columns, fileId),
      fileStats |-> MapDelete(fileStats, fileId),
      currentFileId |->
        IF currentFileId = fileId
        THEN (IF Len(rest) > 0 THEN rest[1].id ELSE NoId)
        ELSE currentFileId]

\* the ids of `issued`
IssuedIds == {issued[i] : i \in 1..Len(issued)}

\* the store and the table after removeFile(fileId) and the table's reaction
DoRemoveFile(fs, fileId) ==
  LET st == removeFile(fs, fileId)
      r == TableReact(st.currentFileId, st.parsedData, st.filteredData,
                      globalFilter, columnFilters)
  IN /\ files' = st.files
     /\ parsedData' = st.parsedData
     /\ columns' = st.columns
     /\ fileStats' = st.fileStats
     /\ currentFileId' = st.currentFileId
     /\ ApplyReact(r)
     /\ unloaded' = unloaded \cup ({fileId} \cap IssuedIds)

\* a client of the store unloads a listed file
ClientRemoveFile(fileId) ==
  /\ unloads < MaxUnloads
  /\ fileId \in FileIds(files)
  /\ unloads' = unloads + 1
  /\ DoRemoveFile(files, fileId)
  /\ UNCHANGED extVars
  /\ UNCHANGED <<fileVars, uiState, loaderVars, uiEvents, queryVars,
                 filterVars, issued>>

----------------------------------------------------------------------------
(* processSingleFile *)

\* up to the first await: setLoading(true), addFile, addUploadedFile,
\* updateProcessingStatus(fileId, "processing").  tempFileId is drawn here
\* by the code but first read in the catch block, where the model draws it.
\* The three awaits (read_csv_file, validate_csv_file, analyze_csv_columns)
\* differ only in the progress figure of the status, which is not part of the
\* state, so a running call has one waiting position.
ProcessBegin(file, fileId) ==
  LET r == TableReact(currentFileId, parsedData, filteredData, globalFilter,
                      columnFilters)
  IN /\ loads < MaxLoads
     /\ file.name \notin DOMAIN procs
     /\ loads' = loads + 1
     /\ uiState' = [uiState EXCEPT !.isLoading = TRUE]
     /\ files' = addFile(fileId, file)
     /\ issued' = Append(issued, fileId)
     /\ uploadedFiles' = uploadedFiles \cup {fileId}
     /\ processingStatus' = MapSet(processingStatus, fileId, "processing")
     /\ procs' = MapSet(procs, file.name,
                        [file |-> file, fileId |-> fileId])
     /\ ApplyReact(r)
     /\ UNCHANGED extVars
     /\ UNCHANGED <<currentFileId, parsedData, columns, fileStats, unloads,
                    uiEvents, queryVars, filterVars, unloaded>>

\* the catch block and the finally block: fileId is declared inside the try
\* block, so the catch block works on tempFileId
ProcessCatch(name, tempFileId, fs, status) ==
  /\ processingStatus' = MapSet(status, tempFileId, "failed")
  /\ DoRemoveFile(fs, tempFileId)
  /\ uiState' = [uiState EXCEPT !.isLoading = FALSE]
  /\ procs' = MapDelete(procs, name)
  /\ UNCHANGED extVars
  /\ UNCHANGED <<uploadedFiles, loads, unloads, uiEvents, queryVars, filterVars,
                 issued>>

\* one of the three backend commands rejects
ProcessInvokeFail(name, tempFileId) ==
  /\ name \in DOMAIN procs
  /\ ProcessCatch(name, tempFileId, files,
                  MapSet(processingStatus, procs[name].fileId, "failed"))

\* the three backend commands resolve and the function runs to its end
ProcessFinish(name, tempFileId) ==
  /\ name \in DOMAIN procs
  /\ LET file == procs[name].file
         fileId == procs[name].fileId
         cols == ColumnsOf(file.columnAnalysis)
         rows == ParseData(file.content, cols)
         st == setParsedData(parsedData, filteredData, columns, fileId, rows,
                             cols)
         r == TableReact(fileId, st.parsedData, st.filteredData, globalFilter,
                         columnFilters)
         status == MapSet(processingStatus, fileId, "processing")
         fs == updateFile(files, fileId, file.validation.estimated_rows,
                          file.validation.column_count)
     IN IF file.content = << >>
        THEN ProcessCatch(name, tempFileId, fs, status)
        ELSE /\ files' = fs
             /\ parsedData' = st.parsedData
             /\ columns' = st.columns
             /\ fileStats' = setFileStats(fileStats, fileId,
                               [valid_rows |-> ValidRows(file.content),
                                content |-> file.content])
             /\ processingStatus' = MapSet(status, fileId, "completed")
             /\ currentFileId' = fileId
             /\ ApplyReact(r)
             /\ uiState' = [uiState EXCEPT !.isLoading = FALSE]
             /\ procs' = MapDelete(procs, name)
             /\ UNCHANGED extVars
             /\ UNCHANGED <<uploadedFiles, loads, unloads, uiEvents, queryVars,
                            filterVars, histVars>>

----------------------------------------------------------------------------
(* DataTable handlers *)

\* one more handler call by the user
UserEvent == uiEvents < MaxUiEvents /\ uiEvents' = uiEvents + 1

\* {#if currentFileId && parsedData.length > 0}: the table is rendered
TableVisible ==
  /\ ~tableCrashed
  /\ currentFileId # NoId
  /\ LocalParsedData(currentFileId, parsedData).def
  /\ Len(LocalParsedData(currentFileId, parsedData).rows) > 0

\* the reaction to a change of the filters alone
FilterReact(gf, cf) ==
  ApplyReact(TableReact(currentFileId, parsedData, filteredData, gf, cf))

GlobalTexts == {<< >>, <<"n">>}

handleGlobalFilterChange(value) ==
  /\ TableVisible
  /\ UserEvent
  /\ globalFilter' = value
  /\ currentPage' = 1
  /\ FilterReact(value, columnFilters)
  /\ UNCHANGED extVars
  /\ UNCHANGED <<files, currentFileId, parsedData, columns, fileStats,
                 fileVars, uiState, loaderVars, unloads, columnFilters,
                 sortColumn, sortDirection, pageSize, histVars>>

handleColumnFilterInput(columnId, value) ==
  LET cf == IF Trim(value) = << >> THEN MapDelete(columnFilters, columnId)
            ELSE MapSet(columnFilters, columnId, Trim(value))
  IN /\ TableVisible
     /\ UserEvent
     /\ columnId \in ColumnIds(LocalColumns(currentFileId, columns))
     /\ columnFilters' = cf
     /\ currentPage' = 1
     /\ FilterReact(globalFilter, cf)
     /\ UNCHANGED extVars
     /\ UNCHANGED <<files, currentFileId, parsedData, columns, fileStats,
                    fileVars, uiState, loaderVars, unloads, globalFilter,
                    sortColumn, sortDirection, pageSize, histVars>>

clearColumnFilter(columnId) ==
  /\ TableVisible
  /\ UserEvent
  /\ columnId \in ColumnIds(LocalColumns(currentFileId, columns))
  /\ columnId \in DOMAIN columnFilters
  /\ columnFilters' = MapDelete(columnFilters, columnId)
  /\ currentPage' = 1
  /\ FilterReact(globalFilter, MapDelete(columnFilters, columnId))
  /\ UNCHANGED extVars
  /\ UNCHANGED <<files, currentFileId, parsedData, columns, fileStats,
                 fileVars, uiState, loaderVars, unloads, globalFilter,
                 sortColumn, sortDirection, pageSize, histVars>>

clearAllFilters ==
  /\ TableVisible
  /\ UserEvent
  /\ FiltersActive(globalFilter, columnFilters)
  /\ columnFilters' = EmptyMap
  /\ globalFilter' = << >>
  /\ currentPage' = 1
  /\ FilterReact(<< >>, EmptyMap)
  /\ UNCHANGED extVars
  /\ UNCHANGED <<files, currentFileId, parsedData, columns, fileStats,
                 fileVars, uiState, loaderVars, unloads, sortColumn,
                 sortDirection, pageSize, histVars>>

handleSort(columnId) ==
  /\ TableVisible
  /\ UserEvent
  /\ columnId \in ColumnIds(LocalColumns(currentFileId, columns))
  /\ IF sortColumn = columnId
     THEN /\ sortDirection' = (IF sortDirection = "asc" THEN "desc" ELSE "asc")
          /\ UNCHANGED sortColumn
     ELSE /\ sortColumn' = columnId
          /\ sortDirection' = "asc"
  /\ currentPage' = 1
  /\ UNCHANGED extVars
  /\ UNCHANGED <<storeVars, fileVars, uiState, loaderVars, unloads, pageSize,
                 filterVars, viewVars, histVars>>

handlePageSizeChange(size) ==
  /\ TableVisible
  /\ UserEvent
  /\ pageSize' = size
  /\ currentPage' = 1
  /\ uiState' = [uiState EXCEPT !.pageSize = size]
  /\ UNCHANGED extVars
  /\ UNCHANGED <<storeVars, fileVars, loaderVars, unloads, sortColumn,
                 sortDirection, filterVars, viewVars, histVars>>

handlePageChange(page) ==
  /\ TableVisible
  /\ UserEvent
  /\ page \in PageButtons(currentPage,
                          CeilDiv(Len(tableFilteredData), pageSize))
  /\ currentPage' = page
  /\ UNCHANGED extVars
  /\ UNCHANGED <<storeVars, fileVars, uiState, loaderVars, unloads, sortColumn,
                 sortDirection, pageSize, filterVars, viewVars, histVars>>

\* the callback of the debounce timer
FilterTimerFire ==
  LET newFilteredData ==
        filterDataSimple(LocalParsedData(currentFileId, parsedData),
                         globalFilter, columnFilters)
      changed == newFilteredData # lastFilteredData
  IN /\ filterDebounceTimer
     /\ filterDebounceTimer' = FALSE
     /\ IF tableCrashed \/ ~changed
        THEN UNCHANGED <<tableFilteredData, lastFilteredData, filteredData>>
        ELSE /\ tableFilteredData' = newFilteredData
             /\ lastFilteredData' = newFilteredData
             /\ filteredData' =
                  IF currentFileId # NoId
                  THEN setFilteredData(filteredData, currentFileId,
                                       newFilteredData)
                  ELSE filteredData
     /\ UNCHANGED extVars
     /\ UNCHANGED <<files, currentFileId, parsedData, columns, fileStats,
                    fileVars, uiState, loaderVars, unloads, uiEvents, queryVars,
                    filterVars, tableCrashed, histVars>>

----------------------------------------------------------------------------
(* Chart component handlers *)

\* {#if !currentFileId || !fileStats} shows the empty state
ChartVisible == currentFileId # NoId /\ currentFileId \in DOMAIN fileStats

\* $: filteredData = currentFileId
\*      ? $csvDataStore.filteredData.get(currentFileId) || [] : []
ChartFilteredData ==
  IF currentFileId # NoId /\ currentFileId \in DOMAIN filteredData
  THEN filteredData[currentFileId] ELSE << >>

\* $csvDataStore.parsedData.get(currentFileId) || []
OriginalData ==
  IF currentFileId \in DOMAIN parsedData THEN parsedData[currentFileId]
  ELSE << >>

availableColumns == LocalColumns(currentFileId, columns)

\* ChartSetFilteredData calling setParsedData in place of setFilteredData
ChartSetFilteredData_setParsedData(rows) ==
  LET st == setParsedData(parsedData, filteredData, columns, currentFileId,
                          rows, availableColumns)
  IN /\ UserEvent
     /\ parsedData' = st.parsedData
     /\ columns' = st.columns
     /\ ApplyReact(TableReact(currentFileId, st.parsedData, st.filteredData,
                              globalFilter, columnFilters))
     /\ UNCHANGED extVars
     /\ UNCHANGED <<files, currentFileId, fileStats, fileVars, uiState,
                    loaderVars, unloads, queryVars, filterVars, histVars>>

\* csvDataActions.setFilteredData(currentFileId, rows) and the table's reaction
ChartSetFilteredData(rows) ==
  /\ UserEvent
  /\ ApplyReact(TableReact(currentFileId, parsedData,
                           setFilteredData(filteredData, currentFileId, rows),
                           globalFilter, columnFilters))
  /\ UNCHANGED extVars
  /\ UNCHANGED <<files, currentFileId, parsedData, columns, fileStats,
                 fileVars, uiState, loaderVars, unloads, queryVars, filterVars,
                 histVars>>

applyRangeFilter(rangeFilterColumn, rangeFilterMin, rangeFilterMax) ==
  LET Keep(row) ==
        RangeKeep(row, rangeFilterColumn, rangeFilterMin, rangeFilterMax)
  IN /\ ChartVisible
     /\ rangeFilterColumn \in ColumnIds(availableColumns)
     /\ ChartSetFilteredData(SelectSeq(ChartFilteredData, Keep))

CategoryValues == {<< >>, <<"9">>}

applyCategoryFilter(categoryFilterColumn, categoryFilterValue) ==
  LET Keep(row) == Get(row, categoryFilterColumn) = Str(categoryFilterValue)
  IN /\ ChartVisible
     /\ categoryFilterColumn \in ColumnIds(availableColumns) \cup {""}
     /\ IF categoryFilterColumn = "" \/ categoryFilterValue = << >>
        THEN ChartSetFilteredData(OriginalData)
        ELSE ChartSetFilteredData(SelectSeq(ChartFilteredData, Keep))

applyPresetFilter(type, selectedYColumn) ==
  /\ ChartVisible
  /\ selectedYColumn \in ColumnIds(availableColumns) \cup {""}
  /\ ChartSetFilteredData(PresetFilter(type, OriginalData, availableColumns,
                                       selectedYColumn))

clearAdvancedFilters ==
  /\ ChartVisible
  /\ ChartSetFilteredData(OriginalData)

----------------------------------------------------------------------------
(* Specification *)

AllColumnIds == {"x", "k"}

FilterInputs == FilterTexts \cup {<< >>}

LoadStep ==
  \/ \E file \in InputFiles, fileId \in Ids : ProcessBegin(file, fileId)
  \/ \E name \in DOMAIN procs, tempFileId \in Ids :
       ProcessInvokeFail(name, tempFileId)
  \/ \E name \in DOMAIN procs, tempFileId \in Ids :
       ProcessFinish(name, tempFileId)

UnloadStep == \E fileId \in FileIds(files) : ClientRemoveFile(fileId)

FilterStep ==
  \/ \E value \in GlobalTexts : handleGlobalFilterChange(value)
  \/ \E c \in AllColumnIds : clearColumnFilter(c)
  \/ clearAllFilters
  \/ \E c \in AllColumnIds, value \in FilterInputs :
       handleColumnFilterInput(c, value)
  \/ FilterTimerFire

SortStep == \E c \in AllColumnIds : handleSort(c)

PageStep ==
  \/ \E size \in PageSizeOptions : handlePageSizeChange(size)
  \/ \E page \in 1..(1 + CeilDiv(Len(tableFilteredData), pageSize)) :
       handlePageChange(page)

AdvancedFilterStep ==
  \/ clearAdvancedFilters
  \/ \E c \in AllColumnIds \cup {""}, value \in CategoryValues :
       applyCategoryFilter(c, value)
  \/ \E c \in AllColumnIds, min \in RangeBounds, max \in RangeBounds :
       applyRangeFilter(c, min, max)
  \/ \E type \in PresetTypes, c \in AllColumnIds \cup {""} :
       applyPresetFilter(type, c)

Next ==
  \/ LoadStep
  \/ UnloadStep
  \/ FilterStep
  \/ SortStep
  \/ PageStep
  \/ AdvancedFilterStep

Spec == Init /\ [][Next]_vars

----------------------------------------------------------------------------
(* The derived values of DataTable *)

\* $: parsedData = ...
localParsedData == LocalParsedData(currentFileId, parsedData)

\* $: sortedData = sortData(filteredData, sortColumn, sortDirection)
sortedData == sortData(tableFilteredData, sortColumn, sortDirection)

\* $: paginatedData = paginateData(sortedData, currentPage, pageSize)
paginatedData == paginateData(sortedData, currentPage, pageSize)

\* $: tableInfo = { ... }
tableInfo ==
  tableInfoOf(localParsedData, tableFilteredData, currentPage, pageSize)

\* the debounce timer is not pending and the component is alive: the view
\* shows the evaluation of the current query
Settled == ~filterDebounceTimer /\ ~tableCrashed

\* position of a row in a sequence of rows (0 when absent)
IndexOf(rows, row) ==
  IF \E i \in 1..Len(rows) : rows[i] = row
  THEN CHOOSE i \in 1..Len(rows) : rows[i] = row
  ELSE 0

\* sub appears in rows in the same relative order
IsOrderedSubsequence(sub, rows) ==
  /\ \A i \in 1..Len(sub) : IndexOf(rows, sub[i]) > 0
  /\ \A i, j \in 1..Len(sub) :
       i < j => IndexOf(rows, sub[i]) < IndexOf(rows, sub[j])

----------------------------------------------------------------------------
(* Claims *)

\* C1: with T filtered rows and page size P >= 1 the table reports
\* total_pages = ceil(T / P) (the least n with n * P >= T), and page
\* total_pages + 1 is an empty row set with total_rows still T.
C1_PaginationBoundary ==
  LET T == Len(tableFilteredData)
      P == pageSize
      totalPages == tableInfo.totalPages
  IN /\ P >= 1
     /\ totalPages * P >= T
     /\ (totalPages - 1) * P < T
     /\ paginateData(sortedData, totalPages + 1, P) = << >>
     /\ currentPage = totalPages + 1 =>
          /\ paginatedData = << >>
          /\ tableInfo.filteredRows = T
     /\ \A page \in 1..totalPages : paginateData(sortedData, page, P) # << >>

\* the table stands on page total_pages + 1 of a non-empty filtered set
C1_Witness ==
  /\ ~tableCrashed
  /\ Len(tableFilteredData) > 0
  /\ currentPage = tableInfo.totalPages + 1

\* the column filters that take part in the query
ActiveColumnFilters ==
  {c \in DOMAIN columnFilters : Trim(columnFilters[c]) # << >>}

\* row is one of rows
InRows(row, rows) == \E i \in 1..Len(rows) : rows[i] = row

\* the query has been evaluated against a loaded dataset
Evaluated == Settled /\ currentFileId # NoId /\ localParsedData.def

\* C2 as stated: a row is in the filtered result iff for every active column
\* filter the row's value for that column, cast to string, contains the
\* filter text case-insensitively.
C2_CastToString ==
  Evaluated /\ Trim(globalFilter) = << >> =>
    \A i \in 1..Len(localParsedData.rows) :
      LET row == localParsedData.rows[i]
      IN InRows(row, tableFilteredData) <=>
           \A c \in ActiveColumnFilters :
             Includes(ToLowerCase(ToStr(Get(row, c))),
                      ToLowerCase(columnFilters[c]))

\* C2: a row is in the filtered result iff it matches the global search text
\* (when one is set) and, for every active column filter, the row's value
\* for that column, read as the empty string when it is null or missing and
\* cast to string otherwise, contains the filter text case-insensitively;
\* the result holds rows of the dataset only.
C2_ColumnFilters ==
  Evaluated =>
    /\ \A i \in 1..Len(localParsedData.rows) :
         LET row == localParsedData.rows[i]
             g == ToLowerCase(Trim(globalFilter))
         IN InRows(row, tableFilteredData) <=>
              /\ g # << >> =>
                   \E key \in DOMAIN row :
                     Includes(ToLowerCase(ToStr(row[key])), g)
              /\ \A c \in ActiveColumnFilters :
                   LET v == Get(row, c)
                       text == IF IsNullish(v) \/ v = Str(<< >>) THEN << >>
                               ELSE ToStr(v)
                   IN Includes(ToLowerCase(text),
                               ToLowerCase(columnFilters[c]))
    /\ \A j \in 1..Len(tableFilteredData) :
         InRows(tableFilteredData[j], localParsedData.rows)

\* a column filter has been evaluated and keeps some rows and drops others,
\* a row with a null cell and a row that matches in upper case among them
C2_Witness ==
  /\ Evaluated
  /\ ActiveColumnFilters # {}
  /\ \E i, j, k \in 1..Len(localParsedData.rows) :
       /\ InRows(localParsedData.rows[i], tableFilteredData)
       /\ \E c \in ActiveColumnFilters :
            Get(localParsedData.rows[i], c) = Str(<<"N">>)
       /\ ~InRows(localParsedData.rows[j], tableFilteredData)
       /\ \E c \in AllColumnIds : IsNullish(Get(localParsedData.rows[k], c))

\* the outcome of the current query: filterDataSimple, sortData and
\* paginateData return an array on every path; the one failure of the
\* component is the exception of its reactive block
queryOutcome == IF tableCrashed THEN "TypeError" ELSE "rows"

\* C3: a query whose filter names a column the dataset does not have ends
\* in an InvalidQuery error.
C3_InvalidQuery ==
  /\ currentFileId # NoId
  /\ localParsedData.def
  /\ Cardinality(IssuedIds) = Len(issued)
  /\ ~filterDebounceTimer
  /\ \E c \in ActiveColumnFilters :
       c \notin ColumnIds(LocalColumns(currentFileId, columns))
  => queryOutcome = "InvalidQuery"

\* C4: in a sorted result no row with a null value in the sort column stands
\* before a row with a value, in either direction.
C4_NullsLast ==
  sortColumn # "" =>
    \A i, j \in 1..Len(sortedData) :
      i < j /\ IsNullish(Get(sortedData[i], sortColumn)) =>
        IsNullish(Get(sortedData[j], sortColumn))

\* the type the loader recorded for a column ("" when the dataset lacks it)
ColumnType(columnId) ==
  LET cols == LocalColumns(currentFileId, columns)
      hits == {i \in 1..Len(cols) : cols[i].id = columnId}
  IN IF hits = {} THEN "" ELSE cols[CHOOSE i \in hits : TRUE].type

\* C5: the sort is stable (rows with equal keys keep their order in the
\* filtered rows), a numeric column is in numeric order and any other column
\* in lexicographic order, for the rows as stored by the loader.
C5_SortOrder ==
  sortColumn # "" /\ Evaluated =>
    \A i, j \in 1..Len(sortedData) :
      i < j =>
        LET a == Get(sortedData[i], sortColumn)
            b == Get(sortedData[j], sortColumn)
        IN /\ a = b => IndexOf(tableFilteredData, sortedData[i])
                         < IndexOf(tableFilteredData, sortedData[j])
           /\ ~IsNullish(a) /\ ~IsNullish(b) =>
                IF ColumnType(sortColumn) = "number"
                THEN \/ IsNaN(ParseFloat(a)) \/ IsNaN(ParseFloat(b))
                     \/ IF sortDirection = "asc"
                        THEN ParseFloat(a) <= ParseFloat(b)
                        ELSE ParseFloat(a) >= ParseFloat(b)
                ELSE IF sortDirection = "asc"
                     THEN LocaleCompare(ToStr(a), ToStr(b)) <= 0
                     ELSE LocaleCompare(ToStr(a), ToStr(b)) >= 0

\* C6: without a sort the rows of the page stand in the order in which they
\* were parsed, whatever the filters and the page.
C6_ParsedOrder ==
  sortColumn = "" /\ Evaluated =>
    /\ IsOrderedSubsequence(paginatedData, localParsedData.rows)
    /\ IsOrderedSubsequence(tableFilteredData, localParsedData.rows)

\* an unsorted, filtered page of at least two rows that leaves out a row
\* standing between or before them
C6_Witness ==
  /\ sortColumn = ""
  /\ Evaluated
  /\ FiltersActive(globalFilter, columnFilters)
  /\ Len(paginatedData) >= 2
  /\ Len(paginatedData) < Len(localParsedData.rows)

\* query_dataset: the page of a query against a dataset
QueryDataset(data, gf, cf, column, direction, page, size) ==
  LET filtered == filterDataSimple(data, gf, cf)
  IN [rows |-> paginateData(sortData(filtered, column, direction), page, size),
      total_rows |-> Len(filtered),
      total_pages |-> CeilDiv(Len(filtered), size)]

\* C7: the page shown for a query is determined by the query and the rows of
\* the dataset alone, so evaluating the same query again on an unchanged
\* dataset shows the same page whatever happened in between.
C7_SamePage ==
  Evaluated =>
    [rows |-> paginatedData,
     total_rows |-> tableInfo.filteredRows,
     total_pages |-> tableInfo.totalPages]
      = QueryDataset(localParsedData, globalFilter, columnFilters, sortColumn,
                     sortDirection, currentPage, pageSize)

\* a filtered and sorted page evaluated after both user events, with a second
\* load in between or before
C7_Witness ==
  /\ Evaluated
  /\ FiltersActive(globalFilter, columnFilters)
  /\ sortColumn # ""
  /\ paginatedData # << >>
  /\ loads = 2

\* a step of a filter, sort or page operation: a handler of the table or of
\* the chart, or the callback of the debounce timer
IsViewStep ==
  \/ uiEvents' # uiEvents
  \/ filterDebounceTimer /\ ~filterDebounceTimer'

\* C8: no filter, sort or page operation changes the parsed rows of any
\* file, nor its columns.
C8_ParsedDataUntouched ==
  [][IsViewStep => parsedData' = parsedData /\ columns' = columns]_vars

\* an advanced filter or a table filter has produced a view that differs
\* from the parsed rows
C8_Witness ==
  /\ uiEvents > 0
  /\ \E id \in DOMAIN parsedData \cap DOMAIN filteredData :
       /\ filteredData[id] # parsedData[id]
       /\ parsedData[id] # << >>

\* C9: once removeFile(id) has run the store holds no rows, filtered rows,
\* columns or statistics under that id and the id is not the current file.
C9_UnloadedStaysGone ==
  \A id \in unloaded :
    /\ id \notin DOMAIN parsedData
    /\ id \notin DOMAIN filteredData
    /\ id \notin DOMAIN columns
    /\ id \notin DOMAIN fileStats
    /\ currentFileId # id

\* C10: every addFile creates an id different from all ids created before.
C10_FreshHandles ==
  \A i, j \in 1..Len(issued) : i # j => issued[i] # issued[j]

\* the ids of the processSingleFile calls that are running
RunningIds == {procs[name].fileId : name \in DOMAIN procs}

\* a step of the loader or of removeFile
IsLoadOrUnloadStep == procs' # procs \/ unloads' # unloads

\* what the store holds under an id
StoredFor(h, pd, fd, cols, stats) ==
  [rows |-> pd[h],
   filtered |-> IF h \in DOMAIN fd THEN fd[h] ELSE << >>,
   columns |-> IF h \in DOMAIN cols THEN cols[h] ELSE << >>,
   stats |-> IF h \in DOMAIN stats THEN {stats[h]} ELSE {}]

\* C11: a load or unload of another dataset leaves the rows, filtered rows,
\* columns and statistics stored for h as they are: h is loaded, no load of h
\* is running and the step does not remove h.
C11_Isolation ==
  [][IsLoadOrUnloadStep =>
       \A h \in (DOMAIN parsedData \cap DOMAIN parsedData') \ RunningIds :
         StoredFor(h, parsedData', filteredData', columns', fileStats')
           = StoredFor(h, parsedData, filteredData, columns, fileStats)]_vars

----------------------------------------------------------------------------
(* The loader on files of varying shape *)

MaxDataLines == 2    \* number of data lines of a generated file

\* the data lines of the generated files: one, two and three fields
DataLines ==
  {<<"b">>, <<"a", ",", "1">>, <<"c", ",", "2", ",", "3">>}

\* String.prototype.join("\n")
RECURSIVE JoinLines(_)
JoinLines(lines) ==
  IF lines = << >> THEN << >>
  ELSE IF Len(lines) = 1 THEN lines[1]
  ELSE lines[1] \o <<"\n">> \o JoinLines(Tail(lines))

\* the sequences over a set of at most n elements
RECURSIVE SeqsUpTo(_, _)
SeqsUpTo(S, n) ==
  IF n = 0 THEN {<< >>}
  ELSE LET shorter == SeqsUpTo(S, n - 1)
       IN shorter \cup {Append(q, x) : q \in shorter, x \in S}

\* the file the user picks, with the answers of the backend commands for a
\* content under the header x,k
CsvFile(content, rows) ==
  [name |-> "c.csv", path |-> "/d/c.csv",
   content |-> content,
   validation |-> [estimated_rows |-> rows, column_count |-> 2],
   columnAnalysis |-> <<[name |-> "x", data_type |-> "string"],
                        [name |-> "k", data_type |-> "number"]>>]

\* a quoted field that holds a line break: x,k / "e / f",4
QuotedContent ==
  <<"x", ",", "k", "\n", "\"", "e", "\n", "f", "\"", ",", "4">>

CsvFiles ==
  {CsvFile(JoinLines(<<<<"x", ",", "k">>>> \o lines) \o end, Len(lines)) :
     lines \in SeqsUpTo(DataLines, MaxDataLines), end \in {<< >>, <<"\n">>}}
    \cup {CsvFile(<< >>, 0), CsvFile(QuotedContent, 1)}

LoaderNext ==
  \/ \E file \in CsvFiles, fileId \in Ids : ProcessBegin(file, fileId)
  \/ \E name \in DOMAIN procs, tempFileId \in Ids :
       ProcessInvokeFail(name, tempFileId)
  \/ \E name \in DOMAIN procs, tempFileId \in Ids :
       ProcessFinish(name, tempFileId)
  \/ UnloadStep

LoaderSpec == Init /\ [][LoaderNext]_vars

\* the ids under which a finished load has stored a dataset
LoadedIds == DOMAIN parsedData \cap DOMAIN columns \cap DOMAIN fileStats

\* the number of fields of a line: line.split(",").length
FieldCount(line) == Len(Split(line, ","))

\* C12: every row of a loaded dataset has one field for each schema column
\* and no other field but its id, whatever the number of delimiters of its
\* source line (the column names of the schema being distinct).
C12_FieldPerColumn ==
  \A h \in LoadedIds :
    Cardinality(ColumnIds(columns[h])) = Len(columns[h]) =>
      \A i \in 1..Len(parsedData[h]) :
        /\ DOMAIN parsedData[h][i] \ {"id"} = ColumnIds(columns[h])
        /\ Cardinality(DOMAIN parsedData[h][i] \ {"id"}) = Len(columns[h])

\* a loaded dataset with a row from a line of one field and a row from a
\* line of three fields under a schema of two columns
C12_Witness ==
  \E h \in LoadedIds :
    LET lines == ContentLines(fileStats[h].content)
    IN /\ Len(columns[h]) = 2
       /\ Len(parsedData[h]) = 2
       /\ \E i, j \in 2..Len(lines) :
            FieldCount(lines[i]) = 1 /\ FieldCount(lines[j]) = 3


\* the fields of the source line of row i of dataset h
RowValues(h, i) == Split(ContentLines(fileStats[h].content)[i + 1], ",")

\* C13: a line with fewer fields than the schema has columns gives a row
\* whose missing trailing fields are null; a line with more fields gives a
\* row whose last column holds every excess field, none being dropped.
C13_ShortAndLongRows ==
  \A h \in LoadedIds :
    Cardinality(ColumnIds(columns[h])) = Len(columns[h]) =>
      \A i \in 1..Len(parsedData[h]) :
        LET values == RowValues(h, i)
            n == Len(columns[h])
            row == parsedData[h][i]
        IN /\ \A k \in 1..n :
                k > Len(values) => row[columns[h][k].id] = NullV
           /\ \A k \in 1..Len(values) :
                k >= n /\ n > 0 =>
                  /\ row[columns[h][n].id].t = "string"
                  /\ Includes(row[columns[h][n].id].s, Trim(values[k]))


\* C14: a load that finds no data row (empty content, or a header alone)
\* ends in an error: no load is completed with a dataset of zero rows.
C14_NoEmptySuccess ==
  \A h \in LoadedIds \cap DOMAIN processingStatus :
    processingStatus[h] = "completed" => Len(parsedData[h]) > 0


\* the records of a delimited text under the quoting convention of the Row
\* Parser (a double quote opens and closes a quoted field, in which the
\* delimiter and the line break are data): the number of fields of each
\* record, or << >> for a text whose last quoted field is not closed
RECURSIVE RfcScan(_, _, _)
RfcScan(s, quoted, counts) ==
  IF s = << >> THEN IF quoted THEN << >> ELSE counts
  ELSE IF Head(s) = "\"" THEN RfcScan(Tail(s), ~quoted, counts)
  ELSE IF quoted THEN RfcScan(Tail(s), quoted, counts)
  ELSE IF Head(s) = ","
    THEN RfcScan(Tail(s), quoted,
                 [counts EXCEPT ![Len(counts)] = counts[Len(counts)] + 1])
  ELSE IF Head(s) = "\n" /\ Tail(s) # << >>
    THEN RfcScan(Tail(s), quoted, Append(counts, 1))
  ELSE RfcScan(Tail(s), quoted, counts)

\* C15: for a well-formed file (every quoted field closed, every record with
\* as many fields as the header) of N data records, the completed load
\* stores N rows and as many schema columns as the header has fields.
C15_RowAndColumnCount ==
  \A h \in LoadedIds \cap DOMAIN processingStatus :
    LET counts == RfcScan(fileStats[h].content, FALSE, <<1>>)
    IN /\ processingStatus[h] = "completed"
       /\ fileStats[h].content # << >>
       /\ counts # << >>
       /\ \A i \in 1..Len(counts) : counts[i] = counts[1]
       => /\ Len(parsedData[h]) = Len(counts) - 1
          /\ Len(columns[h]) = counts[1]


\* C16: the quality report stored for a dataset describes the rows stored
\* for it: in every state its valid_rows is the number of rows the store
\* holds for the dataset.
C16_ReportMatchesRows ==
  \A h \in LoadedIds : fileStats[h].valid_rows = Len(parsedData[h])


----------------------------------------------------------------------------
(* fileStore: the processing queue *)

MaxQueueAdds == 4    \* number of addToProcessingQueue calls

\* the file ids handed to the queue functions
QueueIds == {NewId(0, random) : random \in 0..2}

\* what the queue functions leave alone, fileStore's other fields apart
otherThanQueue == <<storeVars, tableVars, cache, cfgNow, cfgDb, cfgCalls,
                    cfgHist, exportRows, exportText, reimported, exporting,
                    serviceVars>>

\* addToProcessingQueue without the includes() test
addToProcessingQueue_push(queue, fileId) == Append(queue, fileId)

\* if (!store.processingQueue.includes(fileId)) processingQueue.push(fileId)
addToProcessingQueue(queue, fileId) ==
  IF \E i \in 1..Len(queue) : queue[i] = fileId THEN queue
  ELSE Append(queue, fileId)

\* processingQueue.filter(id => id !== fileId)
removeFromProcessingQueue(queue, fileId) ==
  LET Other(id) == id # fileId IN SelectSeq(queue, Other)

\* the history of a call that takes fileId out of the waiting ids
Withdrawn(fileId) ==
  [queueHist EXCEPT !.waiting = MapDelete(queueHist.waiting, fileId)]

QueueAdd(fileId) ==
  /\ queueHist.adds < MaxQueueAdds
  /\ processingQueue' = addToProcessingQueue(processingQueue, fileId)
  /\ queueHist' =
       [queueHist EXCEPT
          !.adds = @ + 1,
          !.waiting = IF fileId \in DOMAIN @ THEN @
                      ELSE MapSet(@, fileId, queueHist.adds)]
  /\ UNCHANGED <<fileVars, otherThanQueue>>

QueueRemove(fileId) ==
  /\ processingQueue' = removeFromProcessingQueue(processingQueue, fileId)
  /\ queueHist' = Withdrawn(fileId)
  /\ UNCHANGED <<fileVars, otherThanQueue>>

\* fileActions.removeFile
QueueRemoveFile(fileId) ==
  /\ uploadedFiles' = uploadedFiles \ {fileId}
  /\ processingStatus' = MapDelete(processingStatus, fileId)
  /\ processingQueue' = removeFromProcessingQueue(processingQueue, fileId)
  /\ queueHist' = Withdrawn(fileId)
  /\ UNCHANGED otherThanQueue

\* getNextInQueue: the answer, and the id that has waited longest
getNextInQueue ==
  LET nextFileId == IF Len(processingQueue) > 0 THEN processingQueue[1]
                    ELSE NoId
      waiting == queueHist.waiting
      oldest == IF DOMAIN waiting = {} THEN NoId
                ELSE CHOOSE id \in DOMAIN waiting :
                       \A other \in DOMAIN waiting :
                         waiting[id] <= waiting[other]
  IN /\ processingQueue' = IF Len(processingQueue) > 0
                           THEN Tail(processingQueue) ELSE processingQueue
     /\ queueHist' = [Withdrawn(oldest) EXCEPT !.next = nextFileId,
                                               !.expected = oldest]
     /\ UNCHANGED <<fileVars, otherThanQueue>>

QueueNext ==
  \/ \E fileId \in QueueIds : QueueAdd(fileId)
  \/ \E fileId \in QueueIds : QueueRemove(fileId)
  \/ \E fileId \in QueueIds : QueueRemoveFile(fileId)
  \/ getNextInQueue

QueueSpec == Init /\ [][QueueNext]_vars

\* C20: getNextInQueue answers with the id that has waited longest among the
\* ids added and neither answered nor removed since (an id added again
\* while it waits keeps its place and is answered once), and with null when
\* no id waits; the queue holds each waiting id once.
C20_QueueFifo ==
  /\ queueHist.next = queueHist.expected
  /\ Len(processingQueue) = Cardinality(DOMAIN queueHist.waiting)
  /\ \A i \in 1..Len(processingQueue) :
       processingQueue[i] \in DOMAIN queueHist.waiting

\* an id was answered while two others wait, after four calls of
\* addToProcessingQueue over three ids
C20_Witness ==
  /\ queueHist.next # NoId
  /\ Len(processingQueue) = 2
  /\ queueHist.adds = MaxQueueAdds


----------------------------------------------------------------------------
(* ConfigAPI: the response cache *)

MaxCfgCalls == 4     \* number of calls of the ConfigAPI's methods
CacheMaxSize == 2    \* cacheConfig.maxSize
CacheTtl == 1        \* cacheConfig.ttl
MaxClock == 2        \* Date.now() ranges over 0..MaxClock

\* generateCacheKey(operation, params): the requests the callers make
CfgKeys ==
  {[op |-> "get", table |-> "users", name |-> "a"],
   [op |-> "get", table |-> "users", name |-> "b"],
   [op |-> "getAll", table |-> "roles", name |-> ""]}

otherThanConfig == <<storeVars, fileVars, tableVars, processingQueue,
                     queueHist, exportRows, exportText, reimported,
                     exporting, serviceVars>>

\* getCached: the entry's data (a hit, or null) and the cache it leaves
getCached(entries, key, now) ==
  LET at == {i \in 1..Len(entries) : entries[i].key = key}
      i == CHOOSE j \in at : TRUE
      Other(e) == e.key # key
  IN IF at = {} THEN [hit |-> FALSE, data |-> 0, cache |-> entries]
     ELSE IF now - entries[i].timestamp > entries[i].ttl
       THEN [hit |-> FALSE, data |-> 0,
             cache |-> SelectSeq(entries, Other)]
     ELSE [hit |-> TRUE, data |-> entries[i].data, cache |-> entries]

\* setCached: when the cache is full the first key of the Map goes; set()
\* on a key of the Map keeps the key's place
setCached(entries, key, data, now) ==
  LET kept == IF Len(entries) >= CacheMaxSize THEN Tail(entries)
              ELSE entries
      entry == [key |-> key, data |-> data, timestamp |-> now,
                ttl |-> CacheTtl]
  IN IF \E i \in 1..Len(kept) : kept[i].key = key
     THEN [i \in 1..Len(kept) |->
             IF kept[i].key = key THEN entry ELSE kept[i]]
     ELSE Append(kept, entry)

\* clearTableCache: the keys that include "<table>" go; JSON.stringify puts
\* the table and the name of the params between double quotes
clearTableCache(entries, table) ==
  LET Kept(e) == table \notin {e.key.table, e.key.name}
  IN SelectSeq(entries, Kept)

\* a use of key, stamped in the history
Used(hist, key) ==
  [hist EXCEPT !.lastUse = MapSet(@, key, hist.uses), !.uses = @ + 1]

\* get, search, getAll, getPaginated up to the await: a hit returns the
\* cached response, a miss invokes the backend command
ReadCall(key) ==
  /\ cfgHist.calls < MaxCfgCalls
  /\ LET c == getCached(cache, key, cfgNow)
         called == [cfgHist EXCEPT !.calls = @ + 1]
     IN /\ cache' = c.cache
        /\ IF c.hit
           THEN /\ cfgHist' =
                     [Used(called, key) EXCEPT
                        !.read = [version |-> c.data,
                                  written |-> cfgHist.written[key.table]]]
                /\ UNCHANGED cfgCalls
           ELSE /\ cfgHist' = called
                /\ cfgCalls' = cfgCalls \cup
                     {[kind |-> "read", key |-> key, table |-> key.table,
                       phase |-> "invoked", data |-> 0,
                       written |-> cfgHist.written[key.table]]}
  /\ UNCHANGED <<cfgNow, cfgDb, otherThanConfig>>

\* save, update, delete up to the await
WriteCall(table) ==
  /\ cfgHist.calls < MaxCfgCalls
  /\ cfgHist' = [cfgHist EXCEPT !.calls = @ + 1]
  /\ cfgCalls' = cfgCalls \cup
       {[kind |-> "write", key |-> << >>, table |-> table,
         phase |-> "invoked", data |-> 0, written |-> 0]}
  /\ UNCHANGED <<cache, cfgNow, cfgDb, otherThanConfig>>

\* the backend runs the command: a read answers with the table as it is
\* (the number of writes it has seen), a write changes the table; either
\* may fail
BackendAnswer(call, ok) ==
  /\ call \in cfgCalls
  /\ call.phase = "invoked"
  /\ LET version == IF call.kind = "write" /\ ok THEN cfgDb[call.table] + 1
                    ELSE cfgDb[call.table]
     IN /\ cfgDb' = [cfgDb EXCEPT ![call.table] = version]
        /\ cfgCalls' = (cfgCalls \ {call}) \cup
             {[call EXCEPT !.phase = IF ok THEN "resolved" ELSE "rejected",
                           !.data = version]}
  /\ UNCHANGED <<cache, cfgNow, cfgHist, otherThanConfig>>

\* the rest of get, search, getAll, getPaginated
ReadReturn(call) ==
  /\ call \in cfgCalls
  /\ call.kind = "read"
  /\ call.phase # "invoked"
  /\ cfgCalls' = cfgCalls \ {call}
  /\ IF call.phase = "resolved"
     THEN LET full == Len(cache) >= CacheMaxSize
              lru == CHOOSE i \in 1..Len(cache) :
                       \A j \in 1..Len(cache) :
                         cfgHist.lastUse[cache[i].key]
                           <= cfgHist.lastUse[cache[j].key]
          IN /\ cache' = setCached(cache, call.key, call.data, cfgNow)
             /\ cfgHist' =
                  [Used(cfgHist, call.key) EXCEPT
                     !.evicted = IF full
                                 THEN <<cache[1].key, cache[lru].key>>
                                 ELSE @,
                     !.read = [version |-> call.data,
                               written |-> call.written]]
     ELSE UNCHANGED <<cache, cfgHist>>
  /\ UNCHANGED <<cfgNow, cfgDb, otherThanConfig>>

\* the rest of save, update, delete
WriteReturn(call) ==
  /\ call \in cfgCalls
  /\ call.kind = "write"
  /\ call.phase # "invoked"
  /\ cfgCalls' = cfgCalls \ {call}
  /\ IF call.phase = "resolved"
     THEN /\ cache' = clearTableCache(cache, call.table)
          /\ cfgHist' =
               [cfgHist EXCEPT
                  !.written[call.table] = IF call.data > @ THEN call.data
                                          ELSE @]
     ELSE UNCHANGED <<cache, cfgHist>>
  /\ UNCHANGED <<cfgNow, cfgDb, otherThanConfig>>

\* a millisecond passes
Tick ==
  /\ cfgNow < MaxClock
  /\ cfgNow' = cfgNow + 1
  /\ UNCHANGED <<cache, cfgDb, cfgCalls, cfgHist, otherThanConfig>>

ConfigNext ==
  \/ \E key \in CfgKeys : ReadCall(key)
  \/ \E table \in Tables : WriteCall(table)
  \/ \E call \in cfgCalls, ok \in BOOLEAN : BackendAnswer(call, ok)
  \/ \E call \in cfgCalls : ReadReturn(call)
  \/ \E call \in cfgCalls : WriteReturn(call)
  \/ Tick

ConfigSpec == Init /\ [][ConfigNext]_vars


\* C18: a read (get, getAll, search, getPaginated) called after a successful
\* write on its table has returned never returns a response the backend
\* gave before that write: the response is of a version of the table at
\* least the one written when the read was called.
C18_NoStaleRead == cfgHist.read.version >= cfgHist.read.written

\* C19: the entry setCached evicts from a full cache is the least recently
\* used one, a hit of getCached counting as a use like a setCached.
C19_EvictsLeastRecentlyUsed ==
  cfgHist.evicted # << >> => cfgHist.evicted[1] = cfgHist.evicted[2]


----------------------------------------------------------------------------
(* D3Demo: export and re-import *)

MaxExportRows == 2   \* number of rows handed to handleDataExport

\* the rows of event.detail.data under the columns x and k: plain cells,
\* and cells holding the delimiter, a double quote or a line break
ExportInputs ==
  LET cells == {<<"a">>, <<"1">>, <<"a", ",", "b">>, <<"a", "\"">>,
                <<"a", "\n", "b">>}
      rows == {[x |-> Str(cx), k |-> Str(ck)] : cx \in cells, ck \in cells}
  IN SeqsUpTo(rows, MaxExportRows) \ {<< >>}

\* a field as export_to_csv writes it under quote_fields "auto": between
\* double quotes, its double quotes doubled, if it holds the delimiter, a
\* double quote or a line break
RECURSIVE QuoteAuto(_, _)
QuoteAuto(field, quoting) ==
  IF ~quoting
  THEN IF \E i \in 1..Len(field) : field[i] \in {",", "\"", "\n"}
       THEN <<"\"">> \o QuoteAuto(field, TRUE) \o <<"\"">>
       ELSE field
  ELSE IF field = << >> THEN << >>
  ELSE (IF Head(field) = "\"" THEN <<"\"", "\"">> ELSE <<Head(field)>>)
         \o QuoteAuto(Tail(field), TRUE)

\* the text export_to_csv writes for exportData with include_headers: the
\* names of the columns, then a line for each row
ExportToCsv(rows) ==
  JoinLines(<<<<"x", ",", "k">>>> \o
            [i \in 1..Len(rows) |->
               QuoteAuto(rows[i].x.s, FALSE) \o <<",">>
                 \o QuoteAuto(rows[i].k.s, FALSE)])

\* parseCSVContent; a row is keyed by the characters of each header
parseCSVContent(content) ==
  LET lines == ContentLines(content)
      headers == [i \in 1..Len(Split(lines[1], ",")) |->
                    Trim(Split(lines[1], ",")[i])]
      Last(h) == CHOOSE i \in 1..Len(headers) :
                   /\ headers[i] = h
                   /\ \A j \in (i + 1)..Len(headers) : headers[j] # h
      Row(line) ==
        LET values == Split(line, ",")
        IN [h \in {headers[i] : i \in 1..Len(headers)} |->
              IF Last(h) - 1 < Len(values) THEN Str(Trim(values[Last(h)]))
              ELSE NullV]
  IN IF Len(lines) < 2 THEN << >>
     ELSE [i \in 1..(Len(lines) - 1) |-> Row(lines[i + 1])]

\* handleDataExport, the backend's export_to_csv run to its end
handleDataExport ==
  /\ exportText = << >>
  /\ exportText' = ExportToCsv(exportRows)
  /\ uiState' = [uiState EXCEPT !.isLoading = FALSE]
  /\ UNCHANGED <<storeVars, fileVars, loaderVars, unloads, uiEvents,
                 queryVars, filterVars, viewVars, histVars, processingQueue,
                 queueHist, cache, cfgNow, cfgDb, cfgCalls, cfgHist,
                 exportRows, reimported, exporting, serviceVars>>

\* the exported file is read back
Reimport ==
  /\ exportText # << >>
  /\ reimported = << >>
  /\ reimported' = <<parseCSVContent(exportText)>>
  /\ UNCHANGED <<storeVars, fileVars, tableVars, processingQueue, queueHist,
                 cache, cfgNow, cfgDb, cfgCalls, cfgHist, exportRows,
                 exportText, exporting, serviceVars>>

ExportInit == InitStores /\ exportRows \in ExportInputs

ExportNext == handleDataExport \/ Reimport

ExportSpec == ExportInit /\ [][ExportNext]_vars

\* C17: the rows read back from the text exported with quote_fields "auto"
\* are the exported rows, field for field, also when a field holds the
\* delimiter, a double quote or a line break.
C17_ExportRoundTrip ==
  reimported # << >> =>
    /\ Len(reimported[1]) = Len(exportRows)
    /\ \A i \in 1..Len(exportRows) :
         \A c \in {"x", "k"} :
           /\ <<c>> \in DOMAIN reimported[1][i]
           /\ reimported[1][i][<<c>>] = exportRows[i][c]


----------------------------------------------------------------------------
(* The remaining claims on the stores *)

\* C21: a step of removeFile(id) that takes a listed file away makes the
\* first remaining file current (null when none remains) if id was current
\* and leaves currentFileId alone otherwise; a currentFileId that was null
\* or named a listed file does not name the removed file afterwards.
C21_CurrentAfterRemove ==
  [][\A id \in FileIds(files) \ FileIds(files') :
       /\ currentFileId = id =>
            currentFileId' = IF Len(files') > 0 THEN files'[1].id ELSE NoId
       /\ currentFileId # id => currentFileId' = currentFileId
       /\ currentFileId \in FileIds(files) \cup {NoId} =>
            currentFileId' \in FileIds(files') \cup {NoId}]_vars

\* the current file was removed while another one was loading: the file now
\* current is one no load has made current
C21_Witness ==
  /\ unloaded # {}
  /\ Cardinality(IssuedIds) = Len(issued)
  /\ currentFileId \notin DOMAIN parsedData
  /\ \E name \in DOMAIN procs : procs[name].fileId = currentFileId


----------------------------------------------------------------------------
(* monitorStore and MonitorEventHandler *)

MaxFrames == 3      \* number of frames the stream delivers
MaxConnects == 2    \* number of connect() calls

\* the number NaN as an argument of setCurrentFrameIndex
NaNIndex == -99

\* the arguments of setCurrentFrameIndex
FrameIndexes == (-1..MaxFrames) \cup {NaNIndex}

\* a < b and a >= b of two numbers: false when one of them is NaN
Less(a, b) == a # NaNIndex /\ b # NaNIndex /\ a < b
AtLeast(a, b) == a # NaNIndex /\ b # NaNIndex /\ a >= b

otherThanMonitor == <<storeVars, fileVars, tableVars, processingQueue,
                      queueHist, cache, cfgNow, cfgDb, cfgCalls, cfgHist,
                      exportRows, exportText, reimported, exporting,
                      metrics, inflight>>

\* if (index < 0 || index >= s.frameData.length) return s
setCurrentFrameIndex(s, index) ==
  IF Less(index, 0) \/ AtLeast(index, Len(s.frameData)) THEN s
  ELSE [s EXCEPT !.currentFrameIndex = index]

\* addFrame: the frame is appended; the index follows the last frame while
\* streaming and not playing
addFrame(s, frame) ==
  LET newFrameData == Append(s.frameData, frame)
  IN [s EXCEPT !.frameData = newFrameData,
               !.currentFrameIndex =
                  IF s.isStreaming /\ ~s.isPlaying THEN Len(newFrameData) - 1
                  ELSE s.currentFrameIndex]

\* monitorStore after n calls of addFrame, one for each listener
RECURSIVE AddFrames(_, _)
AddFrames(s, n) ==
  IF n = 0 THEN s ELSE AddFrames(addFrame(s, Len(s.frameData)), n - 1)

\* a call of one of the store's functions: update(s => next)
MonitorUpdate(next) ==
  /\ monitor' = next
  /\ UNCHANGED <<unlisten, listeners, connecting, monHist, otherThanMonitor>>

\* connect() up to the await of listen()
connect ==
  /\ monHist.connects < MaxConnects
  /\ monHist' = [monHist EXCEPT !.connects = @ + 1]
  /\ connecting' = IF unlisten # NoListener THEN connecting
                   ELSE connecting + 1
  /\ UNCHANGED <<monitor, unlisten, listeners, otherThanMonitor>>

\* listen() resolves with the listener registered, or rejects
ListenSettles(ok) ==
  /\ connecting > 0
  /\ connecting' = connecting - 1
  /\ IF ok
     THEN /\ listeners' = listeners \cup {monHist.made + 1}
          /\ unlisten' = monHist.made + 1
          /\ monHist' = [monHist EXCEPT !.made = @ + 1]
     ELSE UNCHANGED <<listeners, unlisten, monHist>>
  /\ UNCHANGED <<monitor, otherThanMonitor>>

disconnect ==
  /\ unlisten # NoListener
  /\ listeners' = listeners \ {unlisten}
  /\ unlisten' = NoListener
  /\ monHist' = [monHist EXCEPT !.left = Cardinality(listeners')]
  /\ UNCHANGED <<monitor, connecting, otherThanMonitor>>

\* the backend emits a progress event with a frame: every registered
\* listener runs handleEvent, handleProgress and addFrame
ProgressEvent ==
  /\ listeners # {}
  /\ Len(monitor.frameData) + Cardinality(listeners) <= MaxFrames
  /\ monitor' = AddFrames(monitor, Cardinality(listeners))
  /\ monHist' = [monHist EXCEPT !.added = Cardinality(listeners)]
  /\ UNCHANGED <<unlisten, listeners, connecting, otherThanMonitor>>

\* the backend emits a complete or an error event: setStreaming(false)
EndEvent ==
  /\ listeners # {}
  /\ monitor' = [monitor EXCEPT !.isStreaming = FALSE]
  /\ UNCHANGED <<unlisten, listeners, connecting, monHist,
                 otherThanMonitor>>

MonitorNext ==
  \/ \E b \in BOOLEAN : MonitorUpdate([monitor EXCEPT !.isStreaming = b])
  \/ \E b \in BOOLEAN : MonitorUpdate([monitor EXCEPT !.isPlaying = b])
  \/ \E index \in FrameIndexes :
       MonitorUpdate(setCurrentFrameIndex(monitor, index))
  \/ MonitorUpdate(INITIAL_STATE)
  \/ connect
  \/ \E ok \in BOOLEAN : ListenSettles(ok)
  \/ disconnect
  \/ ProgressEvent
  \/ EndEvent

MonitorSpec == Init /\ [][MonitorNext]_vars

\* C22: currentFrameIndex is 0 while frameData is empty and an index of
\* frameData otherwise, in every state of monitorStore.
C22_FrameIndexInRange ==
  IF monitor.frameData = << >> THEN monitor.currentFrameIndex = 0
  ELSE /\ monitor.currentFrameIndex >= 0
       /\ monitor.currentFrameIndex < Len(monitor.frameData)


\* C23: at most one "ai-stream" listener is registered at any time, no
\* listener is left registered by disconnect(), and one progress event
\* adds at most one frame.
C23_OneListener ==
  /\ Cardinality(listeners) <= 1
  /\ monHist.left = 0
  /\ monHist.added <= 1


----------------------------------------------------------------------------
(* The config services: request metrics *)

MaxSvcCalls == 2    \* number of calls of each service

otherThanMetrics == <<storeVars, fileVars, tableVars, processingQueue,
                      queueHist, cache, cfgNow, cfgDb, cfgCalls, cfgHist,
                      exportRows, exportText, reimported, exporting,
                      monitor, unlisten, listeners, connecting, monHist>>

\* getOrgConfigs, getEventConfigsPaginated and the like up to the await:
\* this.metrics.totalRequests++
ServiceCall(s) ==
  /\ inflight[s].calls < MaxSvcCalls
  /\ metrics' = [metrics EXCEPT ![s].totalRequests = @ + 1]
  /\ inflight' = [inflight EXCEPT ![s].calls = @ + 1, ![s].pending = @ + 1]
  /\ UNCHANGED otherThanMetrics

\* the rest of the call: successfulRequests++ for a good answer,
\* failedRequests++ for a bad one or a rejection
ServiceSettles(s, ok) ==
  /\ inflight[s].pending > 0
  /\ inflight' = [inflight EXCEPT ![s].pending = @ - 1]
  /\ metrics' = IF ok
                THEN [metrics EXCEPT ![s].successfulRequests = @ + 1]
                ELSE [metrics EXCEPT ![s].failedRequests = @ + 1]
  /\ UNCHANGED otherThanMetrics

resetMetrics(s) ==
  /\ metrics' = [metrics EXCEPT ![s] = NoRequests]
  /\ UNCHANGED <<inflight, otherThanMetrics>>

MetricsNext ==
  \/ \E s \in Services : ServiceCall(s)
  \/ \E s \in Services, ok \in BOOLEAN : ServiceSettles(s, ok)
  \/ \E s \in Services : resetMetrics(s)

MetricsSpec == Init /\ [][MetricsNext]_vars

\* C24: for each service the successful and the failed requests together
\* are at most the total requests, and exactly the total requests when no
\* call of the service is in flight.
C24_MetricsAddUp ==
  \A s \in Services :
    LET settled == metrics[s].successfulRequests + metrics[s].failedRequests
    IN /\ settled <= metrics[s].totalRequests
       /\ inflight[s].pending = 0 => settled = metrics[s].totalRequests


----------------------------------------------------------------------------
(* processSingleFile: failure and the loading flag *)

\* C25: ids being distinct, a processing status exists only for an id added
\* as an uploaded file, and an id whose status is "failed" has no entry
\* left in csvDataStore: not in files, not in any per-file map.
C25_FailedLoadCleanup ==
  Cardinality(IssuedIds) = Len(issued) =>
    \A h \in DOMAIN processingStatus :
      /\ h \in uploadedFiles
      /\ processingStatus[h] = "failed" =>
           /\ h \notin FileIds(files)
           /\ h \notin DOMAIN parsedData \cup DOMAIN filteredData
           /\ h \notin DOMAIN columns \cup DOMAIN fileStats


\* handleSimpleExport up to its first await; it returns at once, the
\* loading flag still set, when no listed file is current
handleSimpleExport ==
  /\ UserEvent
  /\ uiState' = [uiState EXCEPT !.isLoading = TRUE]
  /\ exporting' = IF currentFileId = NoId \/ currentFileId \notin FileIds(files)
                  THEN exporting ELSE exporting + 1
  /\ UNCHANGED <<storeVars, fileVars, loaderVars, unloads, queryVars,
                 filterVars, viewVars, histVars, processingQueue, queueHist,
                 cache, cfgNow, cfgDb, cfgCalls, cfgHist, exportRows,
                 exportText, reimported, serviceVars>>

\* the rest of handleSimpleExport: read_csv_file and export_to_csv resolve,
\* or one of them rejects and the catch block runs
SimpleExportSettles ==
  /\ exporting > 0
  /\ exporting' = exporting - 1
  /\ uiState' = [uiState EXCEPT !.isLoading = FALSE]
  /\ UNCHANGED <<storeVars, fileVars, loaderVars, unloads, uiEvents,
                 queryVars, filterVars, viewVars, histVars, processingQueue,
                 queueHist, cache, cfgNow, cfgDb, cfgCalls, cfgHist,
                 exportRows, exportText, reimported, serviceVars>>

LoadingNext ==
  \/ LoadStep
  \/ UnloadStep
  \/ handleDataExport
  \/ handleSimpleExport
  \/ SimpleExportSettles

LoadingSpec == Init /\ [][LoadingNext]_vars

\* C26: isLoading is false whenever no load and no export is in progress.
C26_LoadingFlagCleared ==
  procs = EmptyMap /\ exporting = 0 => ~uiState.isLoading

====
